---- MODULE Spec2Model ----
(***************************************************************************)
(* WorktreeManager (src/utils/codebase_utils.py) and the coroutines that   *)
(* call acquire / release on it from one asyncio event loop.               *)
(*                                                                         *)
(* Scheduling.  Every caller of acquire / release is a coroutine of one    *)
(* event loop (asyncio.run in the async_executors scripts).  A coroutine   *)
(* keeps the loop until it reaches an await that really suspends.          *)
(* asyncio.Lock.acquire returns without suspending when the lock is free,  *)
(* and nothing inside acquire / release awaits anything else: the git      *)
(* commands and shutil.rmtree are blocking calls.  `running` is the        *)
(* coroutine that owns the loop; only that coroutine steps.                *)
(***************************************************************************)
EXTENDS Integers, FiniteSets, Sequences, TLC

\* ---------------------------------------------------------------- bounds
NumTasks == 2
NumCommits == 2

Tasks == 1..NumTasks
Commits == 1..NumCommits
NoTask == 0
NoCommit == 0
\* states of a directory other than "checkout with commit c at HEAD": no
\* directory, a directory that is not a checkout, a checkout of a commit
\* that is none of Commits
Absent == 0
Invalid == -1
Stale == -2

\* every commit is given the one same directory
PathOf_Shared(c) == <<"worktree", NoCommit>>

\* self.base / f"worktree_{commit}"
PathOf(c) == <<"worktree", c>>
Paths == {PathOf(c) : c \in Commits}
NoPath == <<>>

VARIABLES
    worktrees,    \* self.worktrees : commit -> path
    ref_counts,   \* self.ref_counts : commit -> int (defaultdict(int))
    lock,         \* self.lock : the task inside `async with self.lock`
    disk,         \* path -> Absent, Invalid, Stale or the commit at HEAD
    registered,   \* paths registered as worktrees in the origin repository
    local,        \* commits the origin repository can resolve
    origin_head,  \* commit checked out in the origin's own working directory
    running,      \* the coroutine that owns the event loop
    pc,           \* position of each coroutine
    commit,       \* argument `commit` of the call in progress
    path,         \* local variable `path` of acquire
    wt_path,      \* the caller's wt_path (value returned by acquire)
    recreated,    \* this acquire removed a directory found at its path
    missing,      \* the commit was not present locally when this acquire began
    nfetch,       \* fetch commands issued by this acquire
    raised        \* commits for which an acquire call has raised

mgr == <<worktrees, ref_counts, lock>>
git == <<disk, registered, local, origin_head>>
locals == <<path, recreated, missing, nfetch>>
task == <<running, pc, commit, wt_path, locals>>

\* the process that owns the manager, from before WorktreeManager.__init__
VARIABLES
    manager,      \* "none": not constructed yet, "ready": __init__ has
                  \* returned, "exit": __init__ ended the process (exit(1))
    base,         \* the base directory repo.parent/worktrees/<repo>/<task> exists
    attempt       \* agent invocations made so far for each work item

ctor == <<manager, base>>

\* generate_file_tree: its arguments and its result
VARIABLES
    root_dir,     \* entries of root_path in the order os.listdir returns them
    max_depth,    \* argument max_depth
    max_items,    \* argument max_items
    tree_lines    \* lines of the string returned by the last call

tree == <<root_dir, max_depth, max_items, tree_lines>>
vars == <<mgr, git, task, raised, ctor, attempt, tree>>

\* ------------------------------------------------- task runner (one run)
\* The async drivers: async_claude_pipeline.main_async / run_question,
\* async_grader.run_parallel / grade_worker and async_dataset_pipeline.main /
\* worker.  One task per work item, all created at once and awaited with
\* asyncio.gather; every task body is inside `async with sem`.
NumItems == 2
Items == 1..NumItems
Pipelines == {"claude", "grader", "dataset"}
NoPipeline == "none"
\* ledger files: the script's output file ("out": claude_code_answers.jsonl,
\* the graded file, qna.jsonl) and rubrics.jsonl of the dataset pipeline
Ledgers == {"out", "rubric"}
\* json.dumps(result) + "\n" : the text of the record, then the newline
Body(i, ok) == [key |-> i, ok |-> ok, eol |-> FALSE]
Newline == [key |-> 0, ok |-> FALSE, eol |-> TRUE]
Line(i, ok) == <<Body(i, ok), Newline>>

VARIABLES
    pipeline,     \* the script that is running
    limit,        \* args.max_concurrency / MAX_PARALLEL
    sem,          \* value of asyncio.Semaphore(limit)
    wpc,          \* position of the task of each item
    gated,        \* the task is inside `async with sem`
    held,         \* acquire has returned to the task, release has not finished
    response,     \* what the agent produced for the item: "none", "ok", "failed"
    target,       \* the ledger file the task has open
    buf,          \* text written to the task's file object and not yet flushed
    ledger,       \* contents of the ledger files
    gather        \* the driver: "gather", "returned" or "raised"

worker == <<wpc, gated, held, response, target, buf>>
run == <<pipeline, limit, sem, worker, ledger, gather>>

\* no task exists
TasksOff ==
    /\ limit = 0
    /\ sem = 0
    /\ gated = [i \in Items |-> FALSE]
    /\ held = [i \in Items |-> FALSE]
    /\ response = [i \in Items |-> "none"]
    /\ target = [i \in Items |-> "out"]
    /\ buf = [i \in Items |-> <<>>]
    /\ attempt = [i \in Items |-> 0]
    /\ gather = "off"

\* ------------------------------------------------ ledger across the runs
\* One script run after the other on the same ledger files: a first run,
\* then runs with --resume; a run may be killed at any step.
MaxRuns == 3
Scripts == Pipelines \cup {"answers"}
NoLedger == "none"

VARIABLES
    dpc,          \* position of the driver: "off" when no process is running
    resume,       \* args.resume of the run
    runs,         \* runs started so far
    already_ran,  \* keys the driver leaves out: pr_numbers_already_ran,
                  \* existing_pr_numbers, failed_pr_numbers, the PRs not in to_run
    rows,         \* the work items handed to the tasks
    keep,         \* lines a clean-up pass still has to write, per ledger
    cleaning,     \* the ledger a clean-up pass is rewriting
    tmp,          \* the temporary file of filter_and_clean_graded_rubrics
    before        \* the ledger files as the run found them

store == <<dpc, resume, runs, already_ran, rows, keep, cleaning, tmp, before>>

\* no script has been started
StoreOff ==
    /\ dpc = "off"
    /\ resume = FALSE
    /\ runs = 0
    /\ already_ran = {}
    /\ rows = {}
    /\ keep = [l \in Ledgers |-> <<>>]
    /\ cleaning = NoLedger
    /\ tmp = <<>>
    /\ before = [l \in Ledgers |-> <<>>]

\* no driver is running (the state of these variables under Spec)
\* generate_file_tree is not called
TreeOff ==
    /\ root_dir = <<>>
    /\ max_depth = 0
    /\ max_items = 0
    /\ tree_lines = <<>>

RunOff ==
    /\ pipeline = NoPipeline
    /\ wpc = [i \in Items |-> "off"]
    /\ ledger = [l \in Ledgers |-> <<>>]
    /\ TasksOff
    /\ StoreOff


\* ------------------------------------------------------------- helpers
Put(f, k, v) == [x \in DOMAIN f \cup {k} |-> IF x = k THEN v ELSE f[x]]
Pop(f, k) == [x \in DOMAIN f \ {k} |-> f[x]]
\* defaultdict(int).__getitem__
Count(c) == IF c \in DOMAIN ref_counts THEN ref_counts[c] ELSE 0
\* Path.exists()
Exists(p) == p # NoPath /\ disk[p] # Absent
\* the tasks to which acquire(c) has returned a path and whose release(c) has
\* not completed
Holders(c) ==
    {t \in Tasks : /\ wt_path[t] # NoPath
                   /\ commit[t] = c
                   /\ pc[t] # "release_return"}
\* the loop is between two coroutines: no call is mid-execution
Quiescent == running = NoTask
\* WorktreeManager.__init__ has returned: the base directory is there
Constructed == manager = "ready" /\ base = TRUE

\* ------------------------------------------------------------------ Init
\* State after WorktreeManager.__init__: empty maps, a fresh lock and an
\* empty base directory (an existing base is removed or the process exits).
\* Which commits the origin repository already holds is an input.
Init ==
    /\ TreeOff
    /\ worktrees = <<>>
    /\ ref_counts = <<>>
    /\ lock = NoTask
    /\ disk = [p \in Paths |-> Absent]
    /\ registered = {}
    /\ local \in SUBSET Commits
    /\ origin_head = Stale
    /\ running = NoTask
    /\ pc = [t \in Tasks |-> "idle"]
    /\ commit = [t \in Tasks |-> NoCommit]
    /\ path = [t \in Tasks |-> NoPath]
    /\ wt_path = [t \in Tasks |-> NoPath]
    /\ recreated = [t \in Tasks |-> FALSE]
    /\ missing = [t \in Tasks |-> FALSE]
    /\ nfetch = [t \in Tasks |-> 0]
    /\ raised = {}
    /\ Constructed
    /\ RunOff

\* --------------------------------------------------------------- acquire
\* the entry is reused only when its directory is gone
Cached_Inverted(c) == c \in DOMAIN worktrees /\ ~Exists(worktrees[c])

\* line 130: `commit in self.worktrees and self.worktrees[commit].exists()`
Cached(c) == c \in DOMAIN worktrees /\ Exists(worktrees[c])

\* the commit is fetched without asking whether it resolves
NeedsFetch_Always(c) == TRUE

\* lines 144-147: rev_parse --verify raises GitCommandError
NeedsFetch(c) == c \notin local

\* any directory that exists is taken for the checkout
HeadMatches_Any(p, c) == Exists(p)

\* line 152: wt_repo.head.commit.hexsha.lower() == commit.lower(); opening an
\* invalid directory as a Repo raises, which line 156 treats as a mismatch
HeadMatches(p, c) == disk[p] = c

\* `git worktree prune`: drops the registrations whose directory is gone
Pruned == {p \in registered : disk[p] # Absent}

\* `return p` (lines 132, 153, 167)
Return(t, p) ==
    /\ pc' = [pc EXCEPT ![t] = "acquire_return"]
    /\ wt_path' = [wt_path EXCEPT ![t] = p]
    /\ UNCHANGED <<running, commit>>

\* an exception leaves acquire (lines 147, 163, 165)
Raise(t) ==
    /\ pc' = [pc EXCEPT ![t] = "acquire_raise"]
    /\ UNCHANGED <<running, commit, wt_path>>

\* acquire goes on to its next statement
Goto(t, next) ==
    /\ pc' = [pc EXCEPT ![t] = next]
    /\ UNCHANGED <<running, commit, wt_path>>

\* the caller leaves the manager and the loop: the locals of the call are gone
Leave(t, next) ==
    /\ pc' = [pc EXCEPT ![t] = next]
    /\ running' = NoTask
    /\ path' = [path EXCEPT ![t] = NoPath]
    /\ recreated' = [recreated EXCEPT ![t] = FALSE]
    /\ missing' = [missing EXCEPT ![t] = FALSE]
    /\ nfetch' = [nfetch EXCEPT ![t] = 0]

\* lines 128-129: a task of the run, created for an item with commit c, is
\* run by the loop and calls `await manager.acquire(c)`; `async with
\* self.lock` takes the free lock without suspending.
acquire_enter(t, c) ==
    /\ pc[t] = "idle"
    /\ running = NoTask
    /\ lock = NoTask
    /\ running' = t
    /\ lock' = t
    /\ pc' = [pc EXCEPT ![t] = "acquire_locked"]
    /\ commit' = [commit EXCEPT ![t] = c]
    /\ missing' = [missing EXCEPT ![t] = c \notin local]
    /\ UNCHANGED <<worktrees, ref_counts, git, wt_path, path, recreated, nfetch, raised>>

\* lines 130-136, the critical section; the lock is released on both exits.
acquire_locked(t) ==
    /\ pc[t] = "acquire_locked"
    /\ running = t
    /\ lock = t
    /\ lock' = NoTask
    /\ IF Cached(commit[t])
       THEN /\ ref_counts' = Put(ref_counts, commit[t], Count(commit[t]) + 1)
            /\ Return(t, worktrees[commit[t]])
            /\ UNCHANGED <<worktrees, path>>
       ELSE /\ path' = [path EXCEPT ![t] = PathOf(commit[t])]
            /\ worktrees' = Put(worktrees, commit[t], PathOf(commit[t]))
            /\ ref_counts' = Put(ref_counts, commit[t], 1)
            /\ Goto(t, "acquire_prune")
    /\ UNCHANGED <<git, recreated, missing, nfetch, raised>>

\* lines 139-143: prune; a GitCommandError is swallowed.
acquire_prune(t) ==
    /\ pc[t] = "acquire_prune"
    /\ running = t
    /\ \E ok \in BOOLEAN :
          registered' = IF ok THEN Pruned ELSE registered
    /\ Goto(t, "acquire_rev_parse")
    /\ UNCHANGED <<origin_head, mgr, disk, local, locals, raised>>

\* lines 144-147: resolve the commit, fetch it when it does not resolve; a
\* failing fetch raises out of acquire.
acquire_rev_parse(t) ==
    /\ pc[t] = "acquire_rev_parse"
    /\ running = t
    /\ IF NeedsFetch(commit[t])
       THEN /\ nfetch' = [nfetch EXCEPT ![t] = @ + 1]
            /\ \E ok \in BOOLEAN :
                  IF ok
                  THEN /\ local' = local \cup {commit[t]}
                       /\ Goto(t, "acquire_exists")
                  ELSE /\ Raise(t)
                       /\ UNCHANGED local
       ELSE /\ Goto(t, "acquire_exists")
            /\ UNCHANGED <<local, nfetch>>
    /\ UNCHANGED <<origin_head, mgr, disk, registered, path, recreated, missing, raised>>

\* lines 149-157: a directory already at the path is kept when its HEAD is
\* the commit and removed otherwise.
acquire_exists(t) ==
    /\ pc[t] = "acquire_exists"
    /\ running = t
    /\ IF Exists(path[t])
       THEN IF HeadMatches(path[t], commit[t])
            THEN /\ Return(t, path[t])
                 /\ UNCHANGED <<disk, recreated>>
            ELSE /\ disk' = [disk EXCEPT ![path[t]] = Absent]
                 /\ recreated' = [recreated EXCEPT ![t] = TRUE]
                 /\ Goto(t, "acquire_add")
       ELSE /\ Goto(t, "acquire_add")
            /\ UNCHANGED <<disk, recreated>>
    /\ UNCHANGED <<origin_head, mgr, registered, local, path, missing, nfetch, raised>>

\* the add checks the commit out in the origin's own working directory
origin_after_add_Checkout(h, c) == c

\* `git worktree add --detach <path> <commit>` (lines 160 and 163, 218 and
\* 223) writes the files of the commit under <path> and records the
\* registration in the origin's .git: HEAD and the working files of the
\* origin's own working directory stay as they were.  h is the commit the
\* origin has checked out, c the commit of the new checkout.
origin_after_add(h, c) == h

\* the entry of the commit is taken back when the checkout cannot be made
acquire_add_Rollback(t) ==
    /\ pc[t] = "acquire_add"
    /\ running = t
    /\ \E ok \in BOOLEAN :
          IF ok
          THEN /\ disk' = [disk EXCEPT ![path[t]] = commit[t]]
               /\ registered' = registered \cup {path[t]}
               /\ origin_head' = origin_after_add(origin_head, commit[t])
               /\ Return(t, path[t])
               /\ UNCHANGED mgr
          ELSE /\ Raise(t)
               /\ worktrees' = Pop(worktrees, commit[t])
               /\ ref_counts' = Pop(ref_counts, commit[t])
               /\ UNCHANGED <<lock, disk, registered, origin_head>>
    /\ UNCHANGED <<local, locals, raised>>

\* the add is not forced: a path that is still registered makes acquire raise
acquire_add_NoForce(t) ==
    /\ pc[t] = "acquire_add"
    /\ running = t
    /\ \E ok \in BOOLEAN :
          IF ok /\ path[t] \notin registered
          THEN /\ disk' = [disk EXCEPT ![path[t]] = commit[t]]
               /\ registered' = registered \cup {path[t]}
               /\ origin_head' = origin_after_add(origin_head, commit[t])
               /\ Return(t, path[t])
          ELSE /\ Raise(t)
               /\ UNCHANGED <<disk, registered, origin_head>>
    /\ UNCHANGED <<mgr, local, locals, raised>>

\* lines 159-167: `worktree add --detach`; a path that is still registered
\* makes it fail with "already registered" and the add is forced.  Either
\* command can fail for another reason, and acquire then raises.
acquire_add(t) ==
    /\ pc[t] = "acquire_add"
    /\ running = t
    /\ \E ok \in BOOLEAN :
          IF ok
          THEN /\ disk' = [disk EXCEPT ![path[t]] = commit[t]]
               /\ registered' = registered \cup {path[t]}
               /\ origin_head' = origin_after_add(origin_head, commit[t])
               /\ Return(t, path[t])
          ELSE /\ Raise(t)
               /\ UNCHANGED <<disk, registered, origin_head>>
    /\ UNCHANGED <<mgr, local, locals, raised>>

\* `wt_path = await manager.acquire(commit)` has its value: the caller goes
\* on to the await of its agent, where it is suspended holding the checkout.
acquire_resume(t) ==
    /\ pc[t] = "acquire_return"
    /\ running = t
    /\ Leave(t, "holding")
    /\ UNCHANGED <<mgr, git, commit, wt_path, raised>>

\* the caller's `except Exception` around acquire: the worker returns
\* without calling release.
acquire_except(t) ==
    /\ pc[t] = "acquire_raise"
    /\ running = t
    /\ Leave(t, "idle")
    /\ commit' = [commit EXCEPT ![t] = NoCommit]
    /\ raised' = raised \cup {commit[t]}
    /\ UNCHANGED <<mgr, git, wt_path>>

\* --------------------------------------------------------------- release
\* line 171: `commit not in self.ref_counts` is the negation
Tracked(c) == c \in DOMAIN ref_counts

\* the checkout is dropped one release early
ReachedZero_Early(n) == n <= 1

\* the checkout is dropped one release late
ReachedZero_Late(n) == n < 0

\* line 175: `self.ref_counts[commit] <= 0`
ReachedZero(n) == n <= 0

\* no guard for an untracked commit, and the entry is dropped at exactly 0
release_ref_counts_NoGuard(c) ==
    IF Count(c) - 1 = 0 THEN Pop(ref_counts, c)
    ELSE Put(ref_counts, c, Count(c) - 1)

\* lines 171-180: the count map after release(c)
release_ref_counts(c) ==
    IF ~Tracked(c) THEN ref_counts
    ELSE IF ReachedZero(ref_counts[c] - 1) THEN Pop(ref_counts, c)
    ELSE Put(ref_counts, c, ref_counts[c] - 1)

\* the path entry is dropped by every release of a tracked commit
release_worktrees_Always(c) ==
    IF Tracked(c) THEN Pop(worktrees, c) ELSE worktrees

\* lines 171-179: the path map after release(c)
release_worktrees(c) ==
    IF Tracked(c) /\ ReachedZero(ref_counts[c] - 1) THEN Pop(worktrees, c)
    ELSE worktrees

\* the directory is removed by every release of a tracked commit
release_disk_Always(c) ==
    IF Tracked(c) /\ c \in DOMAIN worktrees /\ Exists(worktrees[c])
    THEN [disk EXCEPT ![worktrees[c]] = Absent]
    ELSE disk

\* lines 171-178: the directories after release(c); rmtree removes the
\* directory and leaves its registration in the origin repository
release_disk(c) ==
    IF /\ Tracked(c) /\ ReachedZero(ref_counts[c] - 1)
       /\ c \in DOMAIN worktrees /\ Exists(worktrees[c])
    THEN [disk EXCEPT ![worktrees[c]] = Absent]
    ELSE disk

\* lines 169-170: release(commit) is called by the holder of a checkout (the
\* callers' cleanup step), or for a commit the manager does not track (a
\* double release, a release without acquire); the free lock is taken
\* without suspending.
release_enter(t, c) ==
    /\ running = NoTask
    /\ lock = NoTask
    /\ \/ pc[t] = "holding" /\ commit[t] = c
       \/ pc[t] = "idle" /\ ~Tracked(c)
    /\ commit' = [commit EXCEPT ![t] = c]
    /\ running' = t
    /\ lock' = t
    /\ pc' = [pc EXCEPT ![t] = "release_locked"]
    /\ UNCHANGED <<worktrees, ref_counts, git, wt_path, locals, raised>>

\* lines 171-180, the critical section of release, rmtree included.
release_locked(t) ==
    /\ pc[t] = "release_locked"
    /\ running = t
    /\ lock = t
    /\ ref_counts' = release_ref_counts(commit[t])
    /\ worktrees' = release_worktrees(commit[t])
    /\ disk' = release_disk(commit[t])
    /\ lock' = NoTask
    /\ pc' = [pc EXCEPT ![t] = "release_return"]
    /\ UNCHANGED <<origin_head, registered, local, running, commit, wt_path, locals, raised>>

\* release has returned: the caller finishes its item and leaves the loop.
release_resume(t) ==
    /\ pc[t] = "release_return"
    /\ running = t
    /\ Leave(t, "idle")
    /\ commit' = [commit EXCEPT ![t] = NoCommit]
    /\ wt_path' = [wt_path EXCEPT ![t] = NoPath]
    /\ UNCHANGED <<mgr, git, raised>>

\* ----------------------------------------------------------- environment
\* A directory left at the path of a commit the manager does not track (the
\* remains of a killed run): a checkout registered in the origin repository,
\* at the commit or at another one, or a directory that is not a checkout.
CrashLeftover(c, h) ==
    /\ running = NoTask
    /\ c \notin DOMAIN worktrees
    /\ disk[PathOf(c)] = Absent
    /\ disk' = [disk EXCEPT ![PathOf(c)] = h]
    /\ registered' = IF h = Invalid THEN registered
                     ELSE registered \cup {PathOf(c)}
    /\ UNCHANGED <<origin_head, mgr, local, task, raised>>

Next ==
    \/ \E t \in Tasks, c \in Commits : acquire_enter(t, c) /\ UNCHANGED <<run, store, ctor, attempt, tree>>
    \/ \E t \in Tasks : acquire_locked(t) /\ UNCHANGED <<run, store, ctor, attempt, tree>>
    \/ \E t \in Tasks : acquire_prune(t) /\ UNCHANGED <<run, store, ctor, attempt, tree>>
    \/ \E t \in Tasks : acquire_rev_parse(t) /\ UNCHANGED <<run, store, ctor, attempt, tree>>
    \/ \E t \in Tasks : acquire_exists(t) /\ UNCHANGED <<run, store, ctor, attempt, tree>>
    \/ \E t \in Tasks : acquire_add(t) /\ UNCHANGED <<run, store, ctor, attempt, tree>>
    \/ \E t \in Tasks : acquire_resume(t) /\ UNCHANGED <<run, store, ctor, attempt, tree>>
    \/ \E t \in Tasks : acquire_except(t) /\ UNCHANGED <<run, store, ctor, attempt, tree>>
    \/ \E t \in Tasks, c \in Commits : release_enter(t, c) /\ UNCHANGED <<run, store, ctor, attempt, tree>>
    \/ \E t \in Tasks : release_locked(t) /\ UNCHANGED <<run, store, ctor, attempt, tree>>
    \/ \E t \in Tasks : release_resume(t) /\ UNCHANGED <<run, store, ctor, attempt, tree>>
    \/ \E c \in Commits : \E h \in {c, Stale, Invalid} : CrashLeftover(c, h) /\ UNCHANGED <<run, store, ctor, attempt, tree>>

Spec == Init /\ [][Next]_vars

TypeOK ==
    /\ DOMAIN worktrees \subseteq Commits
    /\ DOMAIN ref_counts \subseteq Commits
    /\ lock \in Tasks \cup {NoTask}
    /\ running \in Tasks \cup {NoTask}
    /\ \A p \in Paths : disk[p] \in Commits \cup {Absent, Invalid, Stale}
    /\ registered \subseteq Paths

\* ===================================================== task runner steps
\* Under SpecRun the manager is an object whose acquire either returns or
\* raises (manager_acquire below); its own variables stay as constructed.
WtOff ==
    /\ worktrees = <<>>
    /\ ref_counts = <<>>
    /\ lock = NoTask
    /\ disk = [p \in Paths |-> Absent]
    /\ registered = {}
    /\ local = {}
    /\ origin_head = Stale
    /\ running = NoTask
    /\ pc = [t \in Tasks |-> "idle"]
    /\ commit = [t \in Tasks |-> NoCommit]
    /\ path = [t \in Tasks |-> NoPath]
    /\ wt_path = [t \in Tasks |-> NoPath]
    /\ recreated = [t \in Tasks |-> FALSE]
    /\ missing = [t \in Tasks |-> FALSE]
    /\ nfetch = [t \in Tasks |-> 0]
    /\ raised = {}
    /\ Constructed

\* main_async / run_parallel / main up to `await asyncio.gather(*tasks)`:
\* the semaphore is created with the limit and one task is created per item.
InitRun ==
    /\ TreeOff
    /\ WtOff
    /\ pipeline \in Pipelines
    /\ limit \in 1..NumItems
    /\ sem = limit
    /\ wpc = [i \in Items |-> "pending"]
    /\ gated = [i \in Items |-> FALSE]
    /\ held = [i \in Items |-> FALSE]
    /\ response = [i \in Items |-> "none"]
    /\ target = [i \in Items |-> "out"]
    /\ buf = [i \in Items |-> <<>>]
    /\ attempt = [i \in Items |-> 0]
    /\ ledger = [l \in Ledgers |-> <<>>]
    /\ gather = "gather"
    /\ StoreOff

\* the event loop is running the tasks
Alive == gather = "gather"

\* the semaphore lets every task in
CanEnter_Unbounded(s) == TRUE

\* asyncio.Semaphore.acquire: proceeds when the value is above 0
CanEnter(s) == s > 0

\* the task moves to its next step
Step(i, to) == wpc' = [wpc EXCEPT ![i] = to]

\* the task ends (return, or an exception leaving the coroutine): leaving
\* `async with sem` gives the slot back
Exit(i, to) ==
    /\ wpc' = [wpc EXCEPT ![i] = to]
    /\ gated' = [gated EXCEPT ![i] = FALSE]
    /\ sem' = IF gated[i] THEN sem + 1 ELSE sem

\* an exception that no handler of the task catches
Crash(i) == Exit(i, "raised")

\* `async with sem:`
sem_acquire(i) ==
    /\ Alive
    /\ wpc[i] = "pending"
    /\ CanEnter(sem)
    /\ sem' = sem - 1
    /\ gated' = [gated EXCEPT ![i] = TRUE]
    /\ Step(i, "acquire")
    /\ UNCHANGED <<pipeline, limit, held, response, target, buf, ledger, gather, vars, store>>

\* `wt_path = await manager.acquire(commit)` and its except clause.
\* run_question and grade_worker return None; worker writes a
\* setup-failure record to qna.jsonl and then to rubrics.jsonl.
manager_acquire(i) ==
    /\ Alive
    /\ wpc[i] = "acquire"
    /\ \E ok \in BOOLEAN :
         IF ok
         THEN /\ held' = [held EXCEPT ![i] = TRUE]
              /\ Step(i, "agent")
              /\ UNCHANGED <<sem, gated, response, target>>
         ELSE IF pipeline = "dataset"
              THEN /\ response' = [response EXCEPT ![i] = "failed"]
                   /\ target' = [target EXCEPT ![i] = "out"]
                   /\ Step(i, "write")
                   /\ UNCHANGED <<sem, gated, held>>
              ELSE /\ Exit(i, "done")
                   /\ UNCHANGED <<held, response, target>>
    /\ UNCHANGED <<pipeline, limit, buf, ledger, gather, vars, store>>

\* The agent step.  r = "ok": a usable response; "failed": the placeholder
\* ("(no content)" after three attempts, graded is None, "Failed to
\* generate answer"); "raise": an exception the task catches (grade_worker
\* line 237); "abort": an exception outside every try of the task
\* (create_subprocess_exec at run_question line 38,
\* create_tool_calling_agent at grade_worker line 205).
agent(i) ==
    /\ Alive
    /\ wpc[i] = "agent"
    /\ \E r \in {"ok", "failed", "raise", "abort"} :
         \/ /\ r \in {"ok", "failed"}
            /\ response' = [response EXCEPT ![i] = r]
            /\ target' = [target EXCEPT ![i] = "out"]
            /\ Step(i, IF pipeline = "dataset" THEN "write" ELSE "release")
            /\ UNCHANGED <<sem, gated>>
         \/ /\ r = "raise"
            /\ pipeline = "grader"
            /\ response' = [response EXCEPT ![i] = "failed"]
            /\ target' = [target EXCEPT ![i] = "out"]
            /\ Step(i, "write")
            /\ UNCHANGED <<sem, gated>>
         \/ /\ r = "abort"
            /\ pipeline \in {"claude", "grader"}
            /\ Crash(i)
            /\ UNCHANGED <<response, target>>
    /\ UNCHANGED <<pipeline, limit, held, buf, ledger, gather, vars, store>>

\* generate_rubric of the dataset pipeline; "abort": the agent could not be
\* built (lines 215-221), the stage wrapper catches it and nothing is written
rubric_agent(i) ==
    /\ Alive
    /\ wpc[i] = "rubric"
    /\ \E r \in {"ok", "failed", "abort"} :
         IF r = "abort"
         THEN /\ Step(i, "release")
              /\ UNCHANGED <<response, target>>
         ELSE /\ response' = [response EXCEPT ![i] = r]
              /\ target' = [target EXCEPT ![i] = "rubric"]
              /\ Step(i, "write")
    /\ UNCHANGED <<pipeline, limit, sem, gated, held, buf, ledger, gather, vars, store>>

\* `await manager.release(commit)` in its try / except.  run_question
\* writes its record next, still inside `async with sem`; grade_worker
\* leaves `async with sem` and writes after it; worker returns.
manager_release(i) ==
    /\ Alive
    /\ wpc[i] = "release"
    /\ held' = [held EXCEPT ![i] = FALSE]
    /\ CASE pipeline = "claude" ->
              /\ Step(i, "write")
              /\ UNCHANGED <<sem, gated>>
         [] pipeline = "grader" ->
              /\ Step(i, "write")
              /\ gated' = [gated EXCEPT ![i] = FALSE]
              /\ sem' = sem + 1
         [] OTHER -> Exit(i, "done")
    /\ UNCHANGED <<pipeline, limit, response, target, buf, ledger, gather, vars, store>>

\* ------------------------------------------------------- ledger append
\* `async with aiofiles.open(path, 'a') as f: await f.write(line); await
\* f.flush()`.  Each task has its own file object on the shared file.

\* the record the task writes
Record(i) == Line(i, response[i] = "ok")

\* f.write may hand the text of the record to the file before the newline
write_through_Split(line) == {<<>>, <<Head(line)>>, line}

\* What f.write passes to the file before flush is called: the text stays
\* in the file object's buffer, or, when it is larger than the buffer, goes
\* to the file whole in one write.
write_through(line) == {<<>>, line}

\* O_APPEND: one write lands whole at the end of the file
AppendWrite(f, text) == f \o text

\* where the task goes after its record is in the file.  The dataset worker
\* writes to qna.jsonl, then runs the rubric stage and writes to
\* rubrics.jsonl, then releases; after a failed acquire it writes its two
\* setup-failure records and returns.
AfterAppend(i) ==
    IF pipeline = "dataset"
    THEN IF target[i] = "out"
         THEN IF held[i]
              THEN /\ Step(i, "rubric")
                   /\ UNCHANGED <<sem, gated, target>>
              ELSE /\ target' = [target EXCEPT ![i] = "rubric"]
                   /\ Step(i, "write")
                   /\ UNCHANGED <<sem, gated>>
         ELSE IF held[i]
              THEN /\ Step(i, "release")
                   /\ UNCHANGED <<sem, gated, target>>
              ELSE /\ Exit(i, "done")
                   /\ UNCHANGED target
    ELSE /\ Exit(i, "done")
         /\ UNCHANGED target

\* no wrapper around the stages: the exception leaves the task
WriteFailed_Uncaught(i) ==
    /\ Crash(i)
    /\ UNCHANGED target

\* aiofiles.open raised.  Inside a stage of the dataset pipeline the stage
\* wrapper catches it (the record is lost and the next stage runs);
\* everywhere else nothing catches it.
WriteFailed(i) ==
    IF pipeline = "dataset" /\ held[i]
    THEN AfterAppend(i)
    ELSE /\ Crash(i)
         /\ UNCHANGED target

\* open the ledger for append and write the record to the file object
ledger_write(i) ==
    /\ Alive
    /\ wpc[i] = "write"
    /\ \E ok \in BOOLEAN :
         IF ok
         THEN \E through \in write_through(Record(i)) :
                /\ ledger' = [ledger EXCEPT
                                 ![target[i]] = AppendWrite(@, through)]
                /\ buf' = [buf EXCEPT
                              ![i] = SubSeq(Record(i), Len(through) + 1,
                                            Len(Record(i)))]
                /\ Step(i, "flush")
                /\ UNCHANGED <<sem, gated, target>>
         ELSE /\ WriteFailed(i)
              /\ UNCHANGED <<ledger, buf>>
    /\ UNCHANGED <<pipeline, limit, held, response, gather, vars, store>>

\* f.flush() and the close at the end of the `async with`
ledger_flush(i) ==
    /\ Alive
    /\ wpc[i] = "flush"
    /\ ledger' = [ledger EXCEPT ![target[i]] = AppendWrite(@, buf[i])]
    /\ buf' = [buf EXCEPT ![i] = <<>>]
    /\ AfterAppend(i)
    /\ UNCHANGED <<pipeline, limit, held, response, gather, vars, store>>

\* ---------------------------------------------------------------- gather
Ended == {"done", "raised", "cancelled"}

\* `await asyncio.gather(*tasks)` returns once every task has returned
gather_return ==
    /\ Alive
    /\ \A i \in Items : wpc[i] = "done"
    /\ gather' = "returned"
    /\ UNCHANGED <<pipeline, limit, sem, worker, ledger, vars, store>>

\* gather (return_exceptions is not set) raises the exception of the first
\* task that raised; it leaves the driver coroutine, and asyncio.run cancels
\* the tasks that are still pending before it closes the loop.
gather_raise ==
    /\ Alive
    /\ \E i \in Items : wpc[i] = "raised"
    /\ gather' = "raised"
    /\ wpc' = [i \in Items |-> IF wpc[i] \in Ended THEN wpc[i] ELSE "cancelled"]
    /\ sem' = sem + Cardinality({i \in Items : gated[i]})
    /\ gated' = [i \in Items |-> FALSE]
    /\ buf' = [i \in Items |-> <<>>]
    /\ UNCHANGED <<pipeline, limit, held, response, target, ledger, vars, store>>

NextRun ==
    \/ \E i \in Items : sem_acquire(i)
    \/ \E i \in Items : manager_acquire(i)
    \/ \E i \in Items : agent(i)
    \/ \E i \in Items : rubric_agent(i)
    \/ \E i \in Items : manager_release(i)
    \/ \E i \in Items : ledger_write(i)
    \/ \E i \in Items : ledger_flush(i)
    \/ gather_return
    \/ gather_raise

SpecRun == InitRun /\ [][NextRun]_<<run, vars, store>>

\* =============================================== ledger across the runs
\* ------------------------------------------------------ reading a ledger
\* `for line in f: data = json.loads(line)`: the records of a file
Records(f) == [j \in 1..(Len(f) \div 2) |-> f[2 * j - 1]]

RECURSIVE ToFile(_)
\* `f.write(json.dumps(entry) + "\n")` for each entry in turn
ToFile(rs) ==
    IF rs = <<>> THEN <<>>
    ELSE Line(rs[1].key, rs[1].ok) \o ToFile(Tail(rs))

\* a record that is not a failure placeholder ("(no content)", "Failed to
\* answer", "Failed to grade", "Failed to generate ...", "Worktree creation
\* failed")
IsOk(r) == r.ok
IsFailure(r) == ~r.ok

Keys(f) == {Records(f)[j].key : j \in 1..Len(Records(f))}
SuccessKeys(f) == Keys(ToFile(SelectSeq(Records(f), IsOk)))
FailedKeys(f) == Keys(ToFile(SelectSeq(Records(f), IsFailure)))

\* main_async lines 101-105: `if data["answer"] != "(no content)"`
pr_numbers_already_ran(f) == SuccessKeys(f)

\* run_parallel line 143 of async_generate_answers: every pr_number found
existing_pr_numbers(f) == Keys(f)

\* filter_and_clean_graded_rubrics lines 112-119
failed_pr_numbers(f) == FailedKeys(f)

RECURSIVE ByKey(_, _)
\* `entries_to_keep[pr] = entry`: a dict keeps one entry per key, at the
\* place of the key's first insertion
ByKey(rs, seen) ==
    IF rs = <<>> THEN <<>>
    ELSE IF rs[1].key \in seen
         THEN ByKey(Tail(rs), seen)
         ELSE <<rs[1]>> \o ByKey(Tail(rs), seen \cup {rs[1].key})

\* filter_and_clean_graded_rubrics lines 112-128 with cleaned_path =
\* output_path: the second pass re-inserts entries the first pass inserted
entries_to_keep(f) == ByKey(SelectSeq(Records(f), IsOk), {})

\* the PR is scheduled by a work list that looks at qna.jsonl only
to_run_QnaOnly(fs) ==
    {k \in Items : k \notin SuccessKeys(fs["out"])}

\* filter_and_clean_prs lines 27-68: a PR is run again unless it has a
\* good record in qna.jsonl and in rubrics.jsonl and no failure record
to_run(fs) ==
    {k \in Items : \/ k \notin SuccessKeys(fs["out"])
                   \/ k \notin SuccessKeys(fs["rubric"])
                   \/ k \in FailedKeys(fs["out"]) \cup FailedKeys(fs["rubric"])}

\* the lines a clean-up pass of the script writes to ledger l, computed from
\* the files it read (graded file: lines 137-139; filter_and_clean_prs:
\* lines 73-81, `if item["pr_number"] not in remaining_prs`)
Survivors(script, fs, l) ==
    CASE script = "grader" ->
            IF l = "out" THEN ToFile(entries_to_keep(fs["out"])) ELSE fs[l]
      [] script = "dataset" ->
            ToFile(SelectSeq(Records(fs[l]), LAMBDA r : r.key \notin to_run(fs)))
      [] OTHER -> fs[l]

\* the keys the driver of the script leaves out of its work list
LeftOut(script, fs) ==
    CASE script = "claude" -> pr_numbers_already_ran(fs["out"])
      [] script = "answers" -> existing_pr_numbers(fs["out"])
      [] script = "grader" -> failed_pr_numbers(fs["out"])
      [] OTHER -> Items \ to_run(fs)

\* ------------------------------------------------------- the script runs
InitLedger ==
    /\ TreeOff
    /\ WtOff
    /\ TasksOff
    /\ StoreOff
    /\ pipeline \in Scripts
    /\ wpc = [i \in Items |-> "off"]
    /\ ledger = [l \in Ledgers |-> <<>>]

\* one task per work item
Launch(items) == wpc' = [i \in Items |-> IF i \in items THEN "pending" ELSE "off"]

\* The script is started: without --resume while there is no ledger yet,
\* with --resume once there is one.  It reads the ledger, builds its work
\* list and creates the tasks, or enters its clean-up pass first.
\*   async_claude_pipeline.main_async lines 97-133
\*   async_generate_answers.run_parallel lines 138-165: the output file is
\*     opened with "w" after the existing keys were read
\*   async_grader.run_parallel lines 341-352
\*   async_dataset_pipeline.main lines 204-224
start ==
    /\ dpc \in {"off", "done"}
    /\ runs < MaxRuns
    /\ runs' = runs + 1
    /\ before' = ledger
    /\ LET res == \E l \in Ledgers : ledger[l] # <<>>
           out == IF res THEN LeftOut(pipeline, ledger) ELSE {}
       IN  /\ resume' = res
           /\ already_ran' = out
           /\ IF res /\ pipeline \in {"grader", "dataset"}
              THEN /\ keep' = [l \in Ledgers |-> Survivors(pipeline, ledger, l)]
                   /\ cleaning' = "out"
                   /\ dpc' = IF pipeline = "grader" THEN "clean_write" ELSE "clean_open"
                   /\ rows' = {}
                   /\ Launch({})
                   /\ UNCHANGED ledger
              ELSE /\ rows' = Items \ out
                   /\ Launch(Items \ out)
                   /\ dpc' = "running"
                   /\ ledger' = IF pipeline = "answers"
                                THEN [ledger EXCEPT !["out"] = <<>>]
                                ELSE ledger
                   /\ UNCHANGED <<keep, cleaning>>
    /\ UNCHANGED <<pipeline, limit, sem, gated, held, response, target, buf,
                   gather, tmp, vars>>

\* filter_and_clean_prs lines 73 and 78: `aiofiles.open(path, "w")`
clean_open ==
    /\ dpc = "clean_open"
    /\ ledger' = [ledger EXCEPT ![cleaning] = <<>>]
    /\ dpc' = "clean_write"
    /\ UNCHANGED <<pipeline, limit, sem, worker, gather, vars,
                   resume, runs, already_ran, rows, keep, cleaning, tmp, before>>

\* one `await f.write(json.dumps(...) + "\n")` of a clean-up pass: into the
\* temporary file (graded file, lines 137-139), into the ledger itself
\* (filter_and_clean_prs, lines 74-76 and 79-81)
clean_write ==
    /\ dpc = "clean_write"
    /\ keep[cleaning] # <<>>
    /\ keep' = [keep EXCEPT ![cleaning] = SubSeq(@, 3, Len(@))]
    /\ IF pipeline = "grader"
       THEN /\ tmp' = tmp \o SubSeq(keep[cleaning], 1, 2)
            /\ UNCHANGED ledger
       ELSE /\ ledger' = [ledger EXCEPT ![cleaning] = @ \o SubSeq(keep[cleaning], 1, 2)]
            /\ UNCHANGED tmp
    /\ UNCHANGED <<pipeline, limit, sem, worker, gather, vars,
                   dpc, resume, runs, already_ran, rows, cleaning, before>>

\* the work list after the clean-up pass and the tasks created from it
\*   run_parallel line 346: `row["pr_number"] not in failed_pr_numbers`
\*   filter_and_clean_prs lines 85-89: to_run, exit(0) when it is empty
Resume(items) ==
    /\ rows' = items
    /\ Launch(items)
    /\ cleaning' = NoLedger
    /\ dpc' = IF items = {} /\ pipeline = "dataset" THEN "done" ELSE "running"

\* filter_and_clean_graded_rubrics line 141: shutil.move(tmp_path,
\* cleaned_path), a rename inside one directory
clean_move ==
    /\ dpc = "clean_write"
    /\ pipeline = "grader"
    /\ keep[cleaning] = <<>>
    /\ ledger' = [ledger EXCEPT ![cleaning] = tmp]
    /\ tmp' = <<>>
    /\ Resume(Items \ already_ran)
    /\ UNCHANGED <<pipeline, limit, sem, gated, held, response, target, buf,
                   gather, vars, resume, runs, already_ran, keep, before>>

\* filter_and_clean_prs: the end of an `async with aiofiles.open(..., "w")`
clean_close ==
    /\ dpc = "clean_write"
    /\ pipeline = "dataset"
    /\ keep[cleaning] = <<>>
    /\ IF cleaning = "out"
       THEN /\ cleaning' = "rubric"
            /\ dpc' = "clean_open"
            /\ UNCHANGED <<rows, wpc>>
       ELSE Resume(Items \ already_ran)
    /\ UNCHANGED <<pipeline, limit, sem, gated, held, response, target, buf,
                   ledger, gather, vars, resume, runs, already_ran, keep, tmp,
                   before>>

\* The task of an item appends its record to the output file: a good record
\* or a failure placeholder; or it ends without a record (run_question
\* line 33, grade_worker line 201, answer_worker lines 62 and 93, a write
\* error caught by the stage wrapper).  The dataset worker goes on to its
\* rubric stage.
item_record(i) ==
    /\ dpc = "running"
    /\ wpc[i] = "pending"
    /\ \E o \in {"ok", "failed", "none"} :
         ledger' = IF o = "none" THEN ledger
                   ELSE [ledger EXCEPT !["out"] = @ \o Line(i, o = "ok")]
    /\ Step(i, IF pipeline = "dataset" THEN "rubric" ELSE "done")
    /\ UNCHANGED <<pipeline, limit, sem, gated, held, response, target, buf,
                   gather, vars, store>>

\* generate_rubric lines 275-286, worker lines 126-136
item_rubric(i) ==
    /\ dpc = "running"
    /\ wpc[i] = "rubric"
    /\ \E o \in {"ok", "failed", "none"} :
         ledger' = IF o = "none" THEN ledger
                   ELSE [ledger EXCEPT !["rubric"] = @ \o Line(i, o = "ok")]
    /\ Step(i, "done")
    /\ UNCHANGED <<pipeline, limit, sem, gated, held, response, target, buf,
                   gather, vars, store>>

\* `await asyncio.gather(*tasks)` returns and the script ends
finish ==
    /\ dpc = "running"
    /\ \A i \in rows : wpc[i] = "done"
    /\ dpc' = "done"
    /\ UNCHANGED <<run, vars, resume, runs, already_ran, rows, keep, cleaning,
                   tmp, before>>

\* the process is killed: what it held in memory is gone, the files stay
kill ==
    /\ dpc \notin {"off", "done"}
    /\ dpc' = "off"
    /\ resume' = FALSE
    /\ already_ran' = {}
    /\ rows' = {}
    /\ keep' = [l \in Ledgers |-> <<>>]
    /\ cleaning' = NoLedger
    /\ tmp' = <<>>
    /\ before' = ledger
    /\ wpc' = [i \in Items |-> "off"]
    /\ UNCHANGED <<pipeline, limit, sem, gated, held, response, target, buf,
                   ledger, gather, vars, runs>>

NextLedger ==
    \/ start
    \/ clean_open
    \/ clean_write
    \/ clean_move
    \/ clean_close
    \/ \E i \in Items : item_record(i)
    \/ \E i \in Items : item_rubric(i)
    \/ finish
    \/ kill

SpecLedger == InitLedger /\ [][NextLedger]_<<run, vars, store>>

\* ================================================================ claims
CheckoutPcs == {"acquire_prune", "acquire_rev_parse", "acquire_exists", "acquire_add"}

\* C1: whatever the interleaving of acquire(C) calls on one manager, the
\* checkout-creation steps of C never run while a task already holds C (the
\* directory is created once for all of them), and once every call has
\* returned its path (none has raised) the count of C is the number of
\* acquire(C) calls that returned minus the release(C) calls completed.
C1_OneCheckoutCountMatchesCalls ==
    \A c \in Commits :
        /\ \A t \in Tasks :
              (pc[t] \in CheckoutPcs /\ commit[t] = c) => Holders(c) = {}
        /\ (Quiescent /\ c \notin raised)
              => Count(c) = Cardinality(Holders(c))

C1_Witness ==
    \E c \in Commits :
        /\ Quiescent
        /\ c \notin raised
        /\ Cardinality(Holders(c)) >= 2
        /\ ref_counts[c] = Cardinality(Holders(c))

\* C2: from the return of acquire(C) to a task until that task's release(C),
\* the directory at the returned path exists, whatever the other tasks do.
C2_HeldPathExists ==
    \A t \in Tasks :
        pc[t] \in {"acquire_return", "holding", "release_locked"} /\ wt_path[t] # NoPath
            => Exists(wt_path[t])

C2_Witness ==
    \E t, u \in Tasks :
        /\ pc[t] = "holding"
        /\ pc[u] = "release_return"
        /\ wt_path[u] = wt_path[t]
        /\ Exists(wt_path[t])

\* C3: whenever no call is mid-execution, a commit with a count above 0 has
\* its checkout directory on disk.
C3_CountedCheckoutOnDisk ==
    \A c \in Commits :
        (Quiescent /\ Count(c) > 0) => Exists(PathOf(c))

\* C4: whenever no call is mid-execution, the count of a commit is the number
\* of tasks that have acquired it and not yet released it, and is not negative.
C4_CountIsHolders ==
    \A c \in Commits :
        Quiescent => (Count(c) = Cardinality(Holders(c)) /\ Count(c) >= 0)

\* C5: while one task is in the checkout steps of acquire(A), a task that
\* is ready to call acquire(B), B # A, can start it: A's checkout I/O does
\* not make acquire(B) wait.
C5_IndependentProgress ==
    \A a, b \in Tasks : \A B \in Commits :
        (pc[a] \in CheckoutPcs /\ pc[b] = "idle" /\ B # commit[a])
            => ENABLED acquire_enter(b, B)

\* C6: with no failed acquire of C, two tasks that hold C have the same path
\* and the count of C is 2; when a holder's release returns and one holder
\* is left the count is 1 and the directory is there; when no holder is left
\* the directory and both registry entries of C are gone.
C6_TwoAcquiresTwoReleases ==
    \A c \in Commits :
        c \notin raised =>
            /\ Cardinality(Holders(c)) = 2 =>
                  /\ Count(c) = 2
                  /\ \A t \in Holders(c) : wt_path[t] = PathOf(c)
            /\ \A t \in Tasks :
                  (pc[t] = "release_return" /\ commit[t] = c /\ wt_path[t] # NoPath) =>
                      /\ Cardinality(Holders(c)) = 1 =>
                            Count(c) = 1 /\ Exists(PathOf(c))
                      /\ Holders(c) = {} =>
                            /\ ~Tracked(c)
                            /\ c \notin DOMAIN worktrees
                            /\ ~Exists(PathOf(c))

C6_Witness ==
    \E t \in Tasks :
        /\ pc[t] = "release_return"
        /\ wt_path[t] # NoPath
        /\ commit[t] \notin raised
        /\ Cardinality(Holders(commit[t])) = 1
        /\ Count(commit[t]) = 1

\* C7: the critical section of release(C) on a tracked commit with count n
\* runs under the lock; n > 1 leaves n - 1 and changes no path entry and no
\* directory; n = 1 removes C's directory and drops C from both maps; the
\* entries and directories of the other commits do not change.
C7_ReleaseFrame ==
    [][\A t \in Tasks :
          (pc[t] = "release_locked" /\ pc'[t] = "release_return" /\ Tracked(commit[t])) =>
              /\ lock = t
              /\ ref_counts[commit[t]] >= 1
              /\ ref_counts[commit[t]] > 1 =>
                    /\ ref_counts' = [ref_counts EXCEPT ![commit[t]] = @ - 1]
                    /\ worktrees' = worktrees
                    /\ disk' = disk
              /\ ref_counts[commit[t]] = 1 =>
                    /\ ref_counts' = Pop(ref_counts, commit[t])
                    /\ worktrees' = Pop(worktrees, commit[t])
                    /\ disk' = [disk EXCEPT ![PathOf(commit[t])] = Absent]
      ]_vars

C7_Witness ==
    \E t \in Tasks : \E d \in Commits :
        /\ pc[t] = "release_return"
        /\ wt_path[t] # NoPath
        /\ d # commit[t]
        /\ Tracked(d)
        /\ Exists(PathOf(d))

\* C8: release(C) of a commit that is not tracked returns normally and leaves
\* the path map, the count map and every directory as they were.
C8_UntrackedReleaseNoop ==
    [][\A t \in Tasks :
          (pc[t] = "release_locked" /\ ~Tracked(commit[t]) /\ pc'[t] # pc[t]) =>
              /\ pc'[t] = "release_return"
              /\ worktrees' = worktrees
              /\ ref_counts' = ref_counts
              /\ disk' = disk
              /\ registered' = registered
      ]_vars

C8_Witness ==
    \E t \in Tasks :
        /\ pc[t] = "release_return"
        /\ wt_path[t] = NoPath
        /\ ~Tracked(commit[t])

\* C9: an acquire(C) that went through its checkout steps returns the path
\* of C with C at its HEAD, also when it found there a directory at another
\* commit or one that is no checkout (which it removed).
C9_RecreatedAtCommit ==
    \A t \in Tasks :
        (pc[t] = "acquire_return" /\ path[t] # NoPath) =>
            /\ wt_path[t] = PathOf(commit[t])
            /\ disk[wt_path[t]] = commit[t]

C9_Witness ==
    \E t \in Tasks :
        /\ pc[t] = "acquire_return"
        /\ recreated[t]
        /\ disk[wt_path[t]] = commit[t]

\* C10: with no failed acquire of C, an acquire(C) that returns has issued
\* one fetch when C was not present locally at its start and none
\* otherwise; C is then present locally and stays so, held or released, so
\* that no later acquire(C) fetches.
C10_FetchOnce ==
    /\ [](\A t \in Tasks :
             commit[t] \notin raised =>
                 /\ nfetch[t] <= 1
                 /\ pc[t] = "acquire_return" =>
                       /\ nfetch[t] = (IF missing[t] THEN 1 ELSE 0)
                       /\ commit[t] \in local
                 /\ pc[t] = "holding" => commit[t] \in local)
    /\ [][local \subseteq local']_vars

C10_Witness ==
    \E t \in Tasks :
        /\ pc[t] = "acquire_return"
        /\ commit[t] \notin raised
        /\ missing[t]
        /\ nfetch[t] = 1

\* C11: an acquire(C) that returns has returned a path at which a checkout
\* exists (a directory that is a git checkout), and an acquire(C) whose
\* fetch or whose checkout creation failed has raised instead of returning.
C11_ReturnsCheckoutOrRaises ==
    \A t \in Tasks :
        pc[t] = "acquire_return" =>
            /\ Exists(wt_path[t])
            /\ disk[wt_path[t]] # Invalid

\* the task is between the start of its worktree acquisition and the end of
\* its worktree release
InRegion(i) == wpc[i] \notin Ended /\ (wpc[i] = "acquire" \/ held[i])

\* the ledger file is a sequence of complete lines: the text of a record,
\* then its newline
WholeLines(f) ==
    /\ Len(f) % 2 = 0
    /\ \A j \in 1..Len(f) : f[j].eol = (j % 2 = 0)

\* C12: at every moment of a run of any of the three pipelines, with any
\* limit K >= 1, at most K tasks are between the start of their worktree
\* acquisition and the end of their worktree release.
C12_AtMostLimitInRegion ==
    Cardinality({i \in Items : InRegion(i)}) <= limit

C12_Witness ==
    /\ limit < NumItems
    /\ Cardinality({i \in Items : InRegion(i)}) = limit
    /\ \E i \in Items : wpc[i] = "release" /\ held[i]
    /\ \E i \in Items : wpc[i] = "pending" /\ ~ENABLED sem_acquire(i)

\* C13: the driver returns from gather only after every task has finished,
\* no failure inside one item's task becomes an exception of the driver, and
\* no task is stopped short because another item's task failed.
C13_RunnerContainsFailures ==
    /\ gather # "raised"
    /\ \A i \in Items : wpc[i] # "cancelled"
    /\ gather = "returned" => \A i \in Items : wpc[i] = "done"

\* C19: whatever the interleaving of the tasks, each ledger file is at every
\* moment a sequence of complete record lines, and every change of a ledger
\* file adds exactly one whole line of one item after what was there.
C19_AppendsWholeLines ==
    /\ [](\A l \in Ledgers : WholeLines(ledger[l]))
    /\ [][\A l \in Ledgers :
            ledger'[l] # ledger[l] =>
                \E i \in Items, ok \in BOOLEAN :
                    ledger'[l] = ledger[l] \o Line(i, ok)]_run

C19_Witness ==
    \E i, j \in Items :
        /\ i # j
        /\ target[i] = target[j]
        /\ wpc[i] = "flush" /\ buf[i] # <<>>
        /\ wpc[j] = "flush" /\ buf[j] # <<>>
        /\ Len(ledger[target[i]]) = 0

\* the positions of the driver inside a clean-up (compaction) pass
CleanPcs == {"clean_open", "clean_write"}

\* the keys with a good record in the ledger of the script (in both ledgers
\* of the dataset pipeline)
Successful(script, fs) ==
    IF script = "dataset"
    THEN SuccessKeys(fs["out"]) \cap SuccessKeys(fs["rubric"])
    ELSE SuccessKeys(fs["out"])

NoDuplicateKey(f) ==
    \A a, b \in 1..Len(Records(f)) :
        a # b => Records(f)[a].key # Records(f)[b].key

IsPrefix(f, g) == Len(f) <= Len(g) /\ SubSeq(g, 1, Len(f)) = f

\* C14: when a run with --resume has completed, whatever runs were killed
\* before it, no ledger has two records with the same key, and every key
\* that had a good record when the run started still has one.
C14_ResumeOneRecordPerKey ==
    (dpc = "done" /\ resume) =>
        \A l \in Ledgers :
            /\ NoDuplicateKey(ledger[l])
            /\ SuccessKeys(before[l]) \subseteq SuccessKeys(ledger[l])

\* C15: the set of already-processed keys a run with --resume computes
\* (Claude answers, agent answers, dataset pipeline) is the set of keys with
\* a good record in the ledger it found; a key with failure placeholders
\* only is not in it.
C15_AlreadyProcessedIsSuccessful ==
    (dpc = "running" /\ resume /\ pipeline \in {"claude", "answers", "dataset"}) =>
        already_ran = Successful(pipeline, before)

\* C16: the work list of a run with --resume is the input list without the
\* keys that have a good record in the ledger it found: those are not run
\* again, every other item is.
C16_ResumeRunsTheRest ==
    (dpc = "running" /\ resume) =>
        rows = Items \ Successful(pipeline, before)

\* C17: at every step of a clean-up pass each ledger file holds what it
\* held before the pass or the complete result of the pass.
C17_CompactionCrashSafe ==
    dpc \in CleanPcs =>
        \A l \in Ledgers :
            \/ ledger[l] = before[l]
            \/ ledger[l] = Survivors(pipeline, before, l)

\* C18: when the clean-up pass of the graded file completes, the file holds
\* the good records of the old file, each of them, and no failure record.
C18_CompactionKeepsSuccessful ==
    [][(pipeline = "grader" /\ dpc \in CleanPcs /\ dpc' = "running") =>
          ledger'["out"] = ToFile(SelectSeq(Records(before["out"]), IsOk))
      ]_<<run, store>>

\* C20: a step outside a clean-up pass (starting a run, with --resume or
\* not, a task appending, the end of the run) leaves every record of every
\* ledger in place and only adds after them.
C20_AppendOnlyOutsideCompaction ==
    [][dpc \notin CleanPcs =>
          \A l \in Ledgers : IsPrefix(ledger[l], ledger'[l])
      ]_<<run, store>>

\* C21: in every worker whose acquire succeeded, release is called exactly
\* once, after the agent work, on every exit path of the worker (success,
\* agent failure, parse failure, exception), and never before the acquire:
\* a worker that has returned or raised holds no checkout, and a checkout
\* stops being held only at the worker's release step.
C21_ReleasedOnEveryExit ==
    /\ [](\A i \in Items : wpc[i] \in {"done", "raised"} => ~held[i])
    /\ [][\A i \in Items :
            held[i] /\ ~held'[i] => wpc[i] = "release"]_run

\* C23: when the worktree acquisition of an item fails, the worker invokes
\* no agent for the item and does not call release for it: its next step is
\* the append of a setup-failure record for the item.
C23_SetupFailureRecorded ==
    [][\A i \in Items :
         (wpc[i] = "acquire" /\ wpc'[i] \notin {"acquire", "agent", "cancelled"})
             => /\ wpc'[i] = "write"
                /\ Record(i)' = Line(i, FALSE)
                /\ ~held'[i]]_run

\* C22: when every task has finished, whatever mix of successes and
\* failures it went through, the manager's registry is empty (no path entry
\* and no count entry), so that no checkout directory is tracked any more.
C22_AllReclaimedAtEnd ==
    (Quiescent /\ \A t \in Tasks : pc[t] = "idle") =>
        /\ worktrees = <<>>
        /\ ref_counts = <<>>

\* C26: the registry lock is held only while the path map and the count map
\* are read or updated: no step taken while the lock is held, in acquire or
\* in release, creates a checkout (prune, fetch, worktree add) or removes a
\* checkout directory.
C26_NoDiskWorkUnderLock ==
    [][lock # NoTask =>
          /\ disk' = disk
          /\ registered' = registered
          /\ local' = local]_vars

\* the statements of acquire and release that run under the registry lock
LockedPcs == {"acquire_locked", "release_locked"}

\* C27: the existence check and the count increment of acquire(C) are atomic
\* with respect to every other acquire and release: no two tasks are inside
\* the locked statements at once; an acquire that finds the entry cached
\* returns its path with the count raised by one and the directory there,
\* and one that does not registers the commit anew and goes on to create the
\* checkout; and no step removes a directory whose path an acquire has
\* returned to a task that has not released it.
C27_CheckAndCountAtomic ==
    /\ [](\A t, u \in Tasks :
             (pc[t] \in LockedPcs /\ pc[u] \in LockedPcs) => t = u)
    /\ [][\A t \in Tasks :
            pc[t] = "acquire_locked" /\ pc'[t] # "acquire_locked" =>
                \/ /\ pc'[t] = "acquire_return"
                   /\ Exists(wt_path'[t])
                   /\ Count(commit[t])' = Count(commit[t]) + 1
                \/ /\ pc'[t] = "acquire_prune"
                   /\ ~Cached(commit[t])
                   /\ Count(commit[t])' = 1
                   /\ worktrees'[commit[t]] = PathOf(commit[t])]_vars
    /\ [][\A p \in Paths :
            Exists(p) /\ ~Exists(p)' =>
                \A u \in Tasks :
                    ~(wt_path'[u] = p /\ pc'[u] \in {"acquire_return", "holding"})]_vars

C27_Witness ==
    \E t, u \in Tasks, c \in Commits :
        /\ t # u
        /\ c \notin raised
        /\ pc[t] = "release_return" /\ commit[t] = c
        /\ pc[u] = "holding" /\ commit[u] = c
        /\ Count(c) = 1
        /\ Exists(wt_path[u])

\* C28: per commit the only transitions are unregistered -> registered with
\* count 1 (first acquire), count n -> n+1 (acquire of a registered commit),
\* count n -> n-1 (release) and count 1 -> unregistered with the directory
\* deleted (last release): no acquire registers with count 1 a commit whose
\* count is already positive, and no step deletes the directory of a commit
\* whose count stays above 0.
C28_CountTransitions ==
    [][\A c \in Commits :
         /\ Count(c)' \in {Count(c) - 1, Count(c), Count(c) + 1}
         /\ (\E t \in Tasks : /\ commit[t] = c
                              /\ pc[t] = "acquire_locked"
                              /\ pc'[t] = "acquire_prune") => Count(c) = 0
         /\ (Count(c) = 1 /\ Count(c)' = 0) =>
                /\ c \notin DOMAIN worktrees'
                /\ ~Exists(PathOf(c))'
         /\ (Exists(PathOf(c)) /\ ~Exists(PathOf(c))') => Count(c)' = 0]_vars

\* C30: within one manager the path of commit C is always base/worktree_C
\* and distinct commits have distinct paths: every path entry and every path
\* an acquire(C) has returned is PathOf(C), tasks with checkouts of distinct
\* commits hold distinct paths, and a checkout of C lies only at PathOf(C),
\* so at most one checkout directory exists per commit.
C30_OnePathPerCommit ==
    /\ \A c, d \in Commits : PathOf(c) = PathOf(d) => c = d
    /\ \A c \in DOMAIN worktrees : worktrees[c] = PathOf(c)
    /\ \A t \in Tasks :
          pc[t] \in {"acquire_return", "holding"} =>
              wt_path[t] = PathOf(commit[t])
    /\ \A t, u \in Tasks :
          (/\ pc[t] \in {"acquire_return", "holding"}
           /\ pc[u] \in {"acquire_return", "holding"}
           /\ commit[t] # commit[u]) => wt_path[t] # wt_path[u]
    /\ \A p \in Paths : disk[p] \in Commits => p = PathOf(disk[p])

C30_Witness ==
    \E t, u \in Tasks :
        /\ pc[t] = "holding"
        /\ pc[u] = "acquire_return"
        /\ commit[t] # commit[u]
        /\ Exists(wt_path[t]) /\ Exists(wt_path[u])
        /\ disk[wt_path[t]] = commit[t]
        /\ disk[wt_path[u]] = commit[u]

\* ================================================= agent call with retries
\* The part of run_question (async_claude_pipeline, lines 35-80) and of
\* answer_worker (async_generate_answers, lines 64-132) that runs once the
\* worktree is there: the agent is invoked, invoked again after a failure,
\* the record is appended and the worktree is given back.
Retriers == {"claude", "answers"}

\* run_question line 36: `for attempt in range(3)`
ClaudeAttempts == 3

\* every task is inside `async with sem` with its worktree acquired
InitRetry ==
    /\ TreeOff
    /\ WtOff
    /\ StoreOff
    /\ pipeline \in Retriers
    /\ limit = NumItems
    /\ sem = 0
    /\ wpc = [i \in Items |-> "invoke"]
    /\ gated = [i \in Items |-> TRUE]
    /\ held = [i \in Items |-> TRUE]
    /\ response = [i \in Items |-> "none"]
    /\ target = [i \in Items |-> "out"]
    /\ buf = [i \in Items |-> <<>>]
    /\ attempt = [i \in Items |-> 0]
    /\ ledger = [l \in Ledgers |-> <<>>]
    /\ gather = "gather"

\* run_question lines 36 and 60: the loop goes round again after the sleep
\* unless this was its last iteration (attempt == 2)
LoopsAgain(n) == n < ClaudeAttempts

\* The first call of the agent.  run_question lines 37-58: the claude
\* subprocess; an output other than "(no content)" ends the loop, "(no
\* content)" leads to the sleep, and an exception of
\* create_subprocess_exec is caught nowhere.  answer_worker lines 64-84:
\* exe.ainvoke; its exception leads to the sleep, and an exception of the
\* statements before it (get_file_hierarchy, create_tool_calling_agent) to
\* the outer handler, which records "Failed to answer".
agent_invoke(i) ==
    /\ Alive
    /\ wpc[i] = "invoke"
    /\ \E r \in {"ok", "empty", "raise", "abort"} :
         \/ /\ r = "ok"
            /\ attempt' = [attempt EXCEPT ![i] = @ + 1]
            /\ response' = [response EXCEPT ![i] = "ok"]
            /\ Step(i, IF pipeline = "claude" THEN "release" ELSE "record")
            /\ UNCHANGED <<sem, gated>>
         \/ /\ r = "empty"
            /\ pipeline = "claude"
            /\ attempt' = [attempt EXCEPT ![i] = @ + 1]
            /\ Step(i, "sleep")
            /\ UNCHANGED <<sem, gated, response>>
         \/ /\ r = "raise"
            /\ attempt' = [attempt EXCEPT ![i] = @ + 1]
            /\ IF pipeline = "claude"
               THEN Crash(i)
               ELSE Step(i, "sleep") /\ UNCHANGED <<sem, gated>>
            /\ UNCHANGED response
         \/ /\ r = "abort"
            /\ pipeline = "answers"
            /\ response' = [response EXCEPT ![i] = "failed"]
            /\ Step(i, "record")
            /\ UNCHANGED <<sem, gated, attempt>>
    /\ UNCHANGED <<pipeline, limit, held, target, buf, ledger, gather,
                   mgr, git, task, raised, ctor, tree, store>>

\* `await asyncio.sleep(10)` of run_question (lines 58-62): the loop goes
\* round again, or, after its last iteration, response is "(no content)".
\* `await asyncio.sleep(4)` of answer_worker (line 85): the retry follows.
agent_backoff(i) ==
    /\ Alive
    /\ wpc[i] = "sleep"
    /\ IF pipeline = "claude"
       THEN IF LoopsAgain(attempt[i])
            THEN /\ Step(i, "invoke")
                 /\ UNCHANGED response
            ELSE /\ response' = [response EXCEPT ![i] = "failed"]
                 /\ Step(i, "release")
       ELSE /\ Step(i, "retry")
            /\ UNCHANGED response
    /\ UNCHANGED <<pipeline, limit, sem, gated, held, target, buf, ledger,
                   gather, attempt, mgr, git, task, raised, ctor, tree, store>>

\* answer_worker lines 86-93: the second exe.ainvoke; when it raises too the
\* error is logged to the error file and the worker returns, through the
\* `finally` that gives the worktree back.
agent_retry(i) ==
    /\ Alive
    /\ wpc[i] = "retry"
    /\ attempt' = [attempt EXCEPT ![i] = @ + 1]
    /\ \E ok \in BOOLEAN :
         IF ok
         THEN /\ response' = [response EXCEPT ![i] = "ok"]
              /\ Step(i, "record")
         ELSE /\ response' = [response EXCEPT ![i] = "failed"]
              /\ Step(i, "release")
    /\ UNCHANGED <<pipeline, limit, sem, gated, held, target, buf, ledger,
                   gather, mgr, git, task, raised, ctor, tree, store>>

\* the record of the item is appended to the output file (run_question
\* lines 72-80, after the release; answer_worker lines 104-125, before it)
worker_record(i) ==
    /\ Alive
    /\ wpc[i] = "record"
    /\ ledger' = [ledger EXCEPT !["out"] = AppendWrite(@, Record(i))]
    /\ IF pipeline = "claude"
       THEN Exit(i, "done")
       ELSE Step(i, "release") /\ UNCHANGED <<sem, gated>>
    /\ UNCHANGED <<pipeline, limit, held, response, target, buf, gather,
                   attempt, mgr, git, task, raised, ctor, tree, store>>

\* manager.release(commit) in its try / except (run_question lines 66-69);
\* wt_mgr.down(commit) in the `finally` of answer_worker (lines 127-131)
worker_release(i) ==
    /\ Alive
    /\ wpc[i] = "release"
    /\ held' = [held EXCEPT ![i] = FALSE]
    /\ IF pipeline = "claude"
       THEN Step(i, "record") /\ UNCHANGED <<sem, gated>>
       ELSE Exit(i, "done")
    /\ UNCHANGED <<pipeline, limit, response, target, buf, ledger, gather,
                   attempt, mgr, git, task, raised, ctor, tree, store>>

NextRetry ==
    \/ \E i \in Items : agent_invoke(i)
    \/ \E i \in Items : agent_backoff(i)
    \/ \E i \in Items : agent_retry(i)
    \/ \E i \in Items : worker_record(i)
    \/ \E i \in Items : worker_release(i)

SpecRetry == InitRetry /\ [][NextRetry]_<<run, vars, store>>

\* C24: a failing agent invocation is retried exactly once after a fixed
\* delay, so the agent is invoked at most twice for an item; when the retry
\* fails too the worker appends a failure record for the item, so every
\* worker that has returned has released its worktree and left a record of
\* its item in the output file.
C24_RetriedOnceThenRecorded ==
    /\ \A i \in Items : attempt[i] <= 2
    /\ \A i \in Items :
          wpc[i] = "done" =>
              /\ ~held[i]
              /\ \E j \in 1..Len(ledger["out"]) :
                    ledger["out"][j] = Body(i, response[i] = "ok")

\* ============================================ construction, create and down
\* async_generate_answers.run_parallel constructs the manager (line 136) and
\* its workers call the synchronous API through asyncio.to_thread (lines 59
\* and 129): create and down run in threads of the default executor, so the
\* statements of different workers interleave.  The lock and the count map
\* are not used by this API.

\* what a previous session can have left at the path of commit c
Leftovers(c) == {Absent, c, Stale, Invalid}

\* before WorktreeManager.__init__: the base directory may exist, with
\* directories of a previous session in it; the origin repository may still
\* hold registrations of directories that are gone.
InitSync ==
    /\ TreeOff
    /\ manager = "none"
    /\ base \in BOOLEAN
    /\ disk \in [Paths -> {Absent, Stale, Invalid} \cup Commits]
    /\ \A c \in Commits : disk[PathOf(c)] \in Leftovers(c)
    /\ base = FALSE => \A p \in Paths : disk[p] = Absent
    /\ registered \in SUBSET Paths
    /\ \A p \in Paths : disk[p] \in Commits \cup {Stale} => p \in registered
    /\ local \in SUBSET Commits
    /\ origin_head = Stale
    /\ worktrees = <<>>
    /\ ref_counts = <<>>
    /\ lock = NoTask
    /\ running = NoTask
    /\ pc = [t \in Tasks |-> "idle"]
    /\ commit = [t \in Tasks |-> NoCommit]
    /\ path = [t \in Tasks |-> NoPath]
    /\ wt_path = [t \in Tasks |-> NoPath]
    /\ recreated = [t \in Tasks |-> FALSE]
    /\ missing = [t \in Tasks |-> FALSE]
    /\ nfetch = [t \in Tasks |-> 0]
    /\ raised = {}
    /\ attempt = [i \in Items |-> 0]
    /\ RunOff

\* the directories of the base are left where they are
rmtree_base_Kept(d) == d

\* lines 117-118: shutil.rmtree(self.base); self.base.mkdir(...)
rmtree_base(d) == [p \in Paths |-> Absent]

\* lines 96-125.  A base that does not exist is created.  For one that
\* exists the user is asked: "y" removes it with everything in it and
\* creates it again, any other answer ends the process with exit(1).  The
\* maps are created empty (lines 103 and 125).
WorktreeManager_init ==
    /\ manager = "none"
    /\ IF ~base
       THEN /\ base' = TRUE
            /\ manager' = "ready"
            /\ UNCHANGED disk
       ELSE \E answer \in {"y", "n"} :
              IF answer = "y"
              THEN /\ disk' = rmtree_base(disk)
                   /\ manager' = "ready"
                   /\ UNCHANGED base
              ELSE /\ manager' = "exit"
                   /\ UNCHANGED <<base, disk>>
    /\ worktrees' = <<>>
    /\ ref_counts' = <<>>
    /\ lock' = NoTask
    /\ UNCHANGED <<origin_head, registered, local, running, task, raised, attempt, run, store, tree>>

\* create returns p (lines 206, 227): the worker goes on to its agent
\* work in the checkout (answer_worker lines 64-125)
create_return(t, p) ==
    /\ pc' = [pc EXCEPT ![t] = "using"]
    /\ wt_path' = [wt_path EXCEPT ![t] = p]
    /\ UNCHANGED commit

\* an exception leaves create: answer_worker logs it and returns without
\* calling down (lines 60-62)
create_raise(t) ==
    /\ pc' = [pc EXCEPT ![t] = "idle"]
    /\ commit' = [commit EXCEPT ![t] = NoCommit]
    /\ UNCHANGED wt_path

\* lines 183-185: a worker's thread enters create(c); the path entry is
\* written before anything else
create_enter(t, c) ==
    /\ manager = "ready"
    /\ pc[t] = "idle"
    /\ commit' = [commit EXCEPT ![t] = c]
    /\ path' = [path EXCEPT ![t] = PathOf(c)]
    /\ worktrees' = Put(worktrees, c, PathOf(c))
    /\ pc' = [pc EXCEPT ![t] = "create_prune"]
    /\ UNCHANGED <<ref_counts, lock, git, running, wt_path, recreated,
                   missing, nfetch, raised, ctor, tree, attempt, run, store>>

\* lines 188-191: prune; a GitCommandError is swallowed
create_prune(t) ==
    /\ pc[t] = "create_prune"
    /\ \E ok \in BOOLEAN :
          registered' = IF ok THEN Pruned ELSE registered
    /\ pc' = [pc EXCEPT ![t] = "create_rev_parse"]
    /\ UNCHANGED <<origin_head, mgr, disk, local, running, commit, wt_path, locals,
                   raised, ctor, tree, attempt, run, store>>

\* lines 194-197: resolve the commit, fetch it when it does not resolve
create_rev_parse(t) ==
    /\ pc[t] = "create_rev_parse"
    /\ IF NeedsFetch(commit[t])
       THEN \E ok \in BOOLEAN :
              IF ok
              THEN /\ local' = local \cup {commit[t]}
                   /\ pc' = [pc EXCEPT ![t] = "create_exists"]
                   /\ UNCHANGED <<commit, wt_path>>
              ELSE /\ create_raise(t)
                   /\ UNCHANGED local
       ELSE /\ pc' = [pc EXCEPT ![t] = "create_exists"]
            /\ UNCHANGED <<local, commit, wt_path>>
    /\ UNCHANGED <<origin_head, mgr, disk, registered, running, locals, raised, ctor, tree,
                   attempt, run, store>>

\* lines 200-214: a directory at the path is kept when its HEAD is the
\* commit, and removed otherwise
create_exists(t) ==
    /\ pc[t] = "create_exists"
    /\ IF Exists(path[t])
       THEN IF HeadMatches(path[t], commit[t])
            THEN /\ create_return(t, path[t])
                 /\ UNCHANGED disk
            ELSE /\ disk' = [disk EXCEPT ![path[t]] = Absent]
                 /\ pc' = [pc EXCEPT ![t] = "create_add"]
                 /\ UNCHANGED <<commit, wt_path>>
       ELSE /\ pc' = [pc EXCEPT ![t] = "create_add"]
            /\ UNCHANGED <<disk, commit, wt_path>>
    /\ UNCHANGED <<origin_head, mgr, registered, local, running, locals, raised, ctor, tree,
                   attempt, run, store>>

\* lines 217-227: `worktree add --detach`, forced when the path is still
\* registered.  It fails when another thread has put a directory at the
\* path in the meantime, and can fail for another reason.
create_add(t) ==
    /\ pc[t] = "create_add"
    /\ \E ok \in BOOLEAN :
          IF ok /\ ~Exists(path[t])
          THEN /\ disk' = [disk EXCEPT ![path[t]] = commit[t]]
               /\ registered' = registered \cup {path[t]}
               /\ origin_head' = origin_after_add(origin_head, commit[t])
               /\ create_return(t, path[t])
          ELSE /\ create_raise(t)
               /\ UNCHANGED <<disk, registered, origin_head>>
    /\ UNCHANGED <<mgr, local, running, locals, raised, ctor, tree, attempt,
                   run, store>>

\* down spares a directory that another worker is using
down_spares_Used(t, p) ==
    \E u \in Tasks \ {t} : pc[u] = "using" /\ wt_path[u] = p

\* lines 241-244: down looks at nothing but the path entry
down_spares(t, p) == FALSE

\* an exception leaves down, at the statement it reached
down_raise(t) == pc' = [pc EXCEPT ![t] = "down_raise"]

\* line 242, `worktree_path = self.worktrees[worktree_id]`, in the thread
\* of the `finally` of answer_worker: KeyError when the entry is gone
down_enter(t) ==
    /\ pc[t] = "using"
    /\ IF commit[t] \in DOMAIN worktrees
       THEN /\ path' = [path EXCEPT ![t] = worktrees[commit[t]]]
            /\ pc' = [pc EXCEPT ![t] = "down_rmtree"]
       ELSE /\ down_raise(t)
            /\ UNCHANGED path
    /\ UNCHANGED <<mgr, git, running, commit, wt_path, recreated, missing,
                   nfetch, raised, ctor, tree, attempt, run, store>>

\* line 243, shutil.rmtree(worktree_path): FileNotFoundError when the
\* directory is gone
down_rmtree(t) ==
    /\ pc[t] = "down_rmtree"
    /\ IF Exists(path[t])
       THEN /\ disk' = IF down_spares(t, path[t]) THEN disk
                       ELSE [disk EXCEPT ![path[t]] = Absent]
            /\ pc' = [pc EXCEPT ![t] = "down_del"]
       ELSE /\ down_raise(t)
            /\ UNCHANGED disk
    /\ UNCHANGED <<origin_head, mgr, registered, local, running, commit, wt_path, locals,
                   raised, ctor, tree, attempt, run, store>>

\* line 244, `del self.worktrees[worktree_id]`: KeyError when another
\* thread has deleted the entry; down returns and the worker is finished
down_del(t) ==
    /\ pc[t] = "down_del"
    /\ IF commit[t] \in DOMAIN worktrees
       THEN /\ worktrees' = Pop(worktrees, commit[t])
            /\ pc' = [pc EXCEPT ![t] = "idle"]
            /\ commit' = [commit EXCEPT ![t] = NoCommit]
            /\ wt_path' = [wt_path EXCEPT ![t] = NoPath]
            /\ path' = [path EXCEPT ![t] = NoPath]
       ELSE /\ down_raise(t)
            /\ UNCHANGED <<worktrees, commit, wt_path, path>>
    /\ UNCHANGED <<ref_counts, lock, git, running, recreated, missing,
                   nfetch, raised, ctor, tree, attempt, run, store>>

\* answer_worker lines 130-131: the exception of down is logged as "cleanup
\* failed" and the worker is finished
down_except(t) ==
    /\ pc[t] = "down_raise"
    /\ pc' = [pc EXCEPT ![t] = "idle"]
    /\ commit' = [commit EXCEPT ![t] = NoCommit]
    /\ wt_path' = [wt_path EXCEPT ![t] = NoPath]
    /\ path' = [path EXCEPT ![t] = NoPath]
    /\ UNCHANGED <<mgr, git, running, recreated, missing, nfetch, raised,
                   ctor, tree, attempt, run, store>>

NextSync ==
    \/ WorktreeManager_init
    \/ \E t \in Tasks, c \in Commits : create_enter(t, c)
    \/ \E t \in Tasks : create_prune(t)
    \/ \E t \in Tasks : create_rev_parse(t)
    \/ \E t \in Tasks : create_exists(t)
    \/ \E t \in Tasks : create_add(t)
    \/ \E t \in Tasks : down_enter(t)
    \/ \E t \in Tasks : down_rmtree(t)
    \/ \E t \in Tasks : down_del(t)
    \/ \E t \in Tasks : down_except(t)

SpecSync == InitSync /\ [][NextSync]_<<run, vars, store>>

\* C25: constructing a WorktreeManager whose base directory already exists
\* either empties that directory (after the user confirmed) or ends the
\* process; a constructed manager starts with no directory in its base and
\* with an empty registry.
C25_ConstructedStartsEmpty ==
    [][manager = "none" /\ manager' # "none" =>
          \/ /\ manager' = "exit"
             /\ base
          \/ /\ manager' = "ready"
             /\ base'
             /\ \A p \in Paths : ~Exists(p)'
             /\ worktrees' = <<>>
             /\ ref_counts' = <<>>]_vars

C25_Witness ==
    /\ manager = "exit"
    /\ base
    /\ \E p \in Paths : Exists(p)
    /\ worktrees = <<>>

\* C29: with the synchronous create / down API on a shared manager, when
\* two workers process items with the same commit, the down of one removes
\* the checkout directory whether or not the other worker is still using
\* it, and the down of a worker whose path entry is gone fails.
C29_DownIgnoresOtherUsers ==
    [][\A t \in Tasks :
         /\ (pc[t] = "down_rmtree" /\ pc'[t] # "down_rmtree" /\ Exists(path[t]))
                => ~Exists(path[t])'
         /\ (pc[t] = "using" /\ pc'[t] # "using"
                             /\ commit[t] \notin DOMAIN worktrees)
                => pc'[t] = "down_raise"]_vars

C29_Witness ==
    \E t, u \in Tasks :
        /\ t # u
        /\ pc[t] = "idle"
        /\ pc[u] = "down_raise"
        /\ wt_path[u] = PathOf(commit[u])
        /\ ~Exists(wt_path[u])
        /\ commit[u] \notin DOMAIN worktrees

\* the output file holds a record of the item
Recorded(i) ==
    \E j \in 1..Len(ledger["out"]) :
        ~ledger["out"][j].eol /\ ledger["out"][j].key = i

\* C33: in every per-item pipeline the outcome record of an item is
\* appended to the ledger before the worktree of the item is released: at
\* the release step of a task the output file already holds its record.
C33_RecordBeforeRelease ==
    [][\A i \in Items :
         (held[i] /\ ~held'[i]) => Recorded(i)]_run

Dropped(c) ==
    /\ c \notin DOMAIN worktrees
    /\ c \notin DOMAIN ref_counts
    /\ ~Exists(PathOf(c))
    /\ PathOf(c) \in registered

\* C38: the lifecycle of a commit is repeatable: after release(C) has
\* dropped C to zero and deleted its directory without deregistering the
\* checkout in the origin, a later acquire(C) registers C again with count 1
\* and, when it returns, has created a fresh checkout of C at the same path
\* with the count still 1.
C38_LifecycleRepeats ==
    /\ [](\A t \in Tasks :
             (pc[t] = "acquire_add" /\ running = t /\ path[t] \in registered) =>
                 ENABLED (acquire_add(t) /\ pc'[t] = "acquire_return"))
    /\ [][\A t \in Tasks :
            (pc[t] = "acquire_locked" /\ pc'[t] # "acquire_locked"
                                      /\ Dropped(commit[t])) =>
                /\ pc'[t] = "acquire_prune"
                /\ worktrees'[commit[t]] = PathOf(commit[t])
                /\ Count(commit[t])' = 1]_vars
    /\ [][\A t \in Tasks :
            (pc[t] = "acquire_add" /\ pc'[t] = "acquire_return") =>
                /\ wt_path'[t] = PathOf(commit[t])
                /\ disk'[PathOf(commit[t])] = commit[t]
                /\ PathOf(commit[t]) \in registered'
                /\ Count(commit[t])' = 1]_vars

C38_Witness ==
    \E t \in Tasks :
        /\ pc[t] = "acquire_add"
        /\ commit[t] \notin raised
        /\ ~recreated[t]
        /\ path[t] \in registered
        /\ ~Exists(path[t])
        /\ Count(commit[t]) = 1
        /\ \A u \in Tasks \ {t} : pc[u] = "idle"

\* C39: when filter_and_clean_prs has finished, for every PR of the merged
\* list exactly one of two cases holds: the PR is in the to-run list and
\* has no record in either rewritten ledger, or it is not in the to-run
\* list and has a successful record in both ledgers.
C39_ToRunOrRecorded ==
    [][(pipeline = "dataset" /\ dpc \in CleanPcs /\ dpc' \in {"running", "done"}) =>
          \A k \in Items :
              \/ /\ k \in rows'
                 /\ \A l \in Ledgers : k \notin Keys(ledger'[l])
              \/ /\ k \notin rows'
                 /\ \A l \in Ledgers : k \in SuccessKeys(ledger'[l])
      ]_<<run, store>>

C39_Witness ==
    /\ pipeline = "dataset"
    /\ dpc = "running"
    /\ resume
    /\ \A i \in rows : wpc[i] = "pending"
    /\ \E k \in rows : k \in Keys(before["out"]) /\ k \notin Keys(ledger["out"])
    /\ \E k \in Items \ rows : \A l \in Ledgers : k \in SuccessKeys(ledger[l])

\* The event loop runs every task that is ready, and asyncio.Semaphore
\* wakes its waiters in the order they arrived: a task that can step does
\* step, and a task waiting for a slot gets one when slots keep coming free.
\* Every agent call, git operation and file write terminates.
FairRun ==
    /\ \A i \in Items : SF_<<run, vars, store>>(sem_acquire(i))
    /\ \A i \in Items : WF_<<run, vars, store>>(manager_acquire(i))
    /\ \A i \in Items : WF_<<run, vars, store>>(agent(i))
    /\ \A i \in Items : WF_<<run, vars, store>>(rubric_agent(i))
    /\ \A i \in Items : WF_<<run, vars, store>>(manager_release(i))
    /\ \A i \in Items : WF_<<run, vars, store>>(ledger_write(i))
    /\ \A i \in Items : WF_<<run, vars, store>>(ledger_flush(i))
    /\ WF_<<run, vars, store>>(gather_return)
    /\ WF_<<run, vars, store>>(gather_raise)

SpecRunFair == SpecRun /\ FairRun

release_rmtree_raises(t) ==
    /\ pc[t] = "release_locked"
    /\ running = t
    /\ lock = t
    /\ Tracked(commit[t])
    /\ ReachedZero(ref_counts[commit[t]] - 1)
    /\ commit[t] \in DOMAIN worktrees
    /\ Exists(worktrees[commit[t]])
    /\ ref_counts' = Put(ref_counts, commit[t], ref_counts[commit[t]] - 1)
    /\ lock' = NoTask
    /\ pc' = [pc EXCEPT ![t] = "release_return"]
    /\ UNCHANGED <<worktrees, git, running, commit, wt_path, locals, raised>>

NextFault ==
    \/ Next
    \/ \E t \in Tasks : release_rmtree_raises(t) /\ UNCHANGED <<run, store, ctor, attempt, tree>>

SpecFault == Init /\ [][NextFault]_vars

\* C37: after any sequence of acquire and release calls, whenever no acquire
\* or release is mid-execution the path map and the count map have the same
\* commits as keys and every recorded count is at least 1, also after a
\* release whose directory removal failed.
C37_MapsAgreeCountsPositive ==
    Quiescent =>
        /\ DOMAIN worktrees = DOMAIN ref_counts
        /\ \A c \in DOMAIN ref_counts : ref_counts[c] >= 1

NumNames == 2
MaxDepth == 2
MaxItems == 2

\* names that can appear in a directory; Hidden is a name the filter of line
\* 34 drops (it starts with '.' or is one of DEFAULT_IGNORED_DIRS)
Hidden == 0
Names == 1..NumNames

\* an entry of a directory: a file, or a directory with its own listing
Entry(n, kind) == [name |-> n, isdir |-> kind[1], items |-> kind[2]]
File == <<FALSE, <<>>>>
Dir(listing) == <<TRUE, listing>>

\* the orders in which os.listdir can return the names of S
Orders(S) ==
    {p \in [1..Cardinality(S) -> S] :
        \A i, j \in 1..Cardinality(S) : p[i] = p[j] => i = j}

\* the ways of giving every name of S one of its kinds
KindsIn(S, kinds) ==
    {k \in [S -> UNION {kinds[n] : n \in S}] : \A n \in S : k[n] \in kinds[n]}

\* the listings of the directories whose names are among `names`, the
\* entry of name n being of one of kinds[n]
Listings(names, kinds) ==
    UNION {{[i \in 1..Cardinality(S) |-> Entry(p[i], k[p[i]])] :
                p \in Orders(S), k \in KindsIn(S, kinds)} :
           S \in SUBSET names}

\* an entry of the second level is a file
Files == [n \in Names |-> {File}]
\* an entry of root_path is a file or a directory; the directory of the
\* first name holds files, the others are empty
Kinds ==
    [n \in Names \cup {Hidden} |->
        IF n = 1 THEN {File} \cup {Dir(l) : l \in Listings(Names, Files)}
        ELSE {File, Dir(<<>>)}]

\* the directories generate_file_tree is called on
RootDirs(names) == Listings(names \cup {Hidden}, Kinds)

\* line 33: `not item.startswith('.') and item not in ignored_dirs`
Listed(e) == e.name # Hidden
\* line 35: the sort key, `not os.path.isdir(...)`
IsDir(e) == e.isdir
IsFile(e) == ~e.isdir

\* lines 31-36: sorted(..., key=not isdir).  Python's sort is stable, so the
\* directories come first and, within the directories and within the
\* files, the entries stay in the order of the listing.
sorted(all_items) == SelectSeq(all_items, IsDir) \o SelectSeq(all_items, IsFile)

\* line 36: `[:max_items]`
Cut(s, m) == SubSeq(s, 1, IF Len(s) < m THEN Len(s) ELSE m)

\* lines 30-36: the items of one level
items_of(all_items, m) == Cut(sorted(SelectSeq(all_items, Listed)), m)

\* lines 42, 49: the connector of an item and the prefix of its children
\* (ASCII stands for the box-drawing characters of the corner, tee and bar)
connector(is_last) == IF is_last THEN "+-- " ELSE "|-- "
new_prefix(prefix, is_last) == Append(prefix, IF is_last THEN "    " ELSE "|   ")

\* lines 47, 52: prefix, connector and item_name, with a slash after a directory
TreeLine(prefix, conn, e) ==
    [prefix |-> prefix, connector |-> conn, name |-> e.name,
     slash |-> IF e.isdir THEN "/" ELSE ""]

RECURSIVE build_tree(_, _, _, _, _)
RECURSIVE build_items(_, _, _, _, _, _)

\* lines 40-52: the loop of _build_tree from item i on
build_items(items, i, prefix, depth, md, mi) ==
    IF i > Len(items) THEN <<>>
    ELSE LET is_last == i = Len(items)
             e == items[i]
             below == IF e.isdir
                      THEN build_tree(e.items, new_prefix(prefix, is_last),
                                      depth + 1, md, mi)
                      ELSE <<>>
         IN <<TreeLine(prefix, connector(is_last), e)>> \o below
                \o build_items(items, i + 1, prefix, depth, md, mi)

\* lines 23-52: _build_tree(current_path, prefix, depth)
build_tree(all_items, prefix, depth, md, mi) ==
    IF depth >= md THEN <<>>
    ELSE build_items(items_of(all_items, mi), 1, prefix, depth, md, mi)

\* line 22: the basename of root_path and a slash
RootLine == [prefix |-> <<>>, connector |-> "", name |-> "root", slash |-> "/"]

\* lines 22, 55, 56: the lines of the returned string
TreeOf(dir, md, mi) == <<RootLine>> \o build_tree(dir, <<>>, 0, md, mi)

\* no call has returned yet (a returned string has the line of the root)
NoOutput == <<>>

\* the rest of the program is not running
TreeOnly ==
    /\ WtOff
    /\ RunOff

InitTree ==
    /\ TreeOnly
    /\ root_dir \in RootDirs(Names)
    /\ max_depth \in 1..MaxDepth
    /\ max_items \in 1..MaxItems
    /\ tree_lines = NoOutput

\* lines 12-56: one call of generate_file_tree(root_path, max_depth, max_items)
generate_file_tree ==
    /\ tree_lines' = TreeOf(root_dir, max_depth, max_items)
    /\ UNCHANGED <<root_dir, max_depth, max_items>>
    /\ UNCHANGED <<mgr, git, task, raised, ctor, attempt, run, store>>

NextTree == generate_file_tree

SpecTree == InitTree /\ [][NextTree]_<<run, vars, store>>

\* the same directory with every listing in the order of the names
RECURSIVE ByName(_)
ByName(listing) ==
    SortSeq([i \in 1..Len(listing) |->
                [listing[i] EXCEPT !.items = ByName(listing[i].items)]],
            LAMBDA a, b : a.name < b.name)

\* C34: the output of generate_file_tree depends on the entries of the
\* directories only, not on the order in which the filesystem lists them: at
\* each level the directories come before the files, the entries are
\* otherwise in the order of their names, and the max_items cut keeps the
\* first entries of that order.
C34_OutputIndependentOfListing ==
    tree_lines # NoOutput =>
        tree_lines = TreeOf(ByName(root_dir), max_depth, max_items)

====
